---- MODULE Spec2Model ----
(***************************************************************************)
(* Model of the SR844 lock-in amplifier driver                             *)
(* (src/stanford_research/SR844.py): the two channel-buffer readiness      *)
(* flags, the ChannelBuffer array parameter (prepare_buffer_readout, get)  *)
(* and the setters that are meant to invalidate a prepared buffer.         *)
(*                                                                         *)
(* The instrument itself is the environment: every answer it gives         *)
(* (SPTS ?, SRAT ?, DDEF ?, the raw TRCL transfer) is an input of the      *)
(* action that asks for it.                                                *)
(*                                                                         *)
(* Floating-point values are kept exact:                                   *)
(*   - a decoded sample is the pair [mant, exp2], standing for             *)
(*     mant * 2.0**exp2, where exp2 is the int16 result of                 *)
(*     realdata[1::2] - 124 (numpy keeps the int16 width, so it wraps);    *)
(*   - a setpoint is the reduced fraction [num, den].                      *)
(***************************************************************************)
EXTENDS Integers, Sequences, FiniteSets, TLC

(***************************************************************************)
(* Bounds of the model                                                     *)
(***************************************************************************)
\* largest point count the instrument reports (SPTS ?) in the driver runs
MaxN == 1
\* largest point count given to the setpoint construction on its own
MaxCount == 5
\* longest (mantissa, exponent) sequence given to the decoder on its own
MaxPairs == 2

(***************************************************************************)
(* Program constants                                                       *)
(***************************************************************************)
\* the bias of the instrument's float format: 2.0**(realdata[1::2]-124)
ExponentBias == 124
\* val_mapping of buffer_SR: 'Trigger' is index 14
TriggerIndex == 14
\* val_mapping of buffer_SR: 1 Hz is index 4, rate(idx) = 2^(idx-4) Hz
OneHzIndex == 4
\* range(1, 2): the exclusive upper end of the channel-setup loop
ChannelLoopEnd == 2

VARIABLES
    buffer_ready,        \* [1..2 -> BOOLEAN]: _buffer1_ready, _buffer2_ready
    stray_buffer_ready,  \* the attribute _buffer_ready: "unset" or "False"
    cb,                  \* [1..2 -> record]: the ChannelBuffer of each channel
    last,                \* the last operation called and how it ended
    sr_stale,            \* history: [1..2 -> BOOLEAN], a sample-rate set since
                         \* the channel's last prepare_buffer_readout call
    pure_in,             \* input of a function checked on its own
    pure_out             \* its result

vars == <<buffer_ready, stray_buffer_ready, cb, last, sr_stale, pure_in, pure_out>>

Channels == {1, 2}

(***************************************************************************)
(* Arithmetic helpers                                                      *)
(***************************************************************************)
RECURSIVE Pow2(_)
Pow2(n) == IF n <= 0 THEN 1 ELSE 2 * Pow2(n - 1)

RECURSIVE Gcd(_, _)
Gcd(a, b) == IF b = 0 THEN a ELSE Gcd(b, a % b)

\* the fraction p/q (q > 0, p >= 0) in lowest terms
Rat(p, q) == LET g == Gcd(p, q) IN [num |-> p \div g, den |-> q \div g]

(***************************************************************************)
(* Outcomes: "none", or the exception the call ends with                   *)
(***************************************************************************)
NoError == "none"
ErrNotReady == "RuntimeError: Buffer not ready"
ErrEmpty == "ValueError: No points stored"
ErrFromString == "ValueError: string size must be a multiple of element size"
ErrBroadcast == "ValueError: operands could not be broadcast together"
ErrShape == "RuntimeError: got N points in buffer expected shape"
ErrKeyParam == "KeyError: params"
ErrIntParse == "ValueError: invalid literal for int()"
ErrIndex == "IndexError: list index out of range"
ErrNoKeys == "AttributeError: list has no attribute keys"
ErrNotInVals == "ValueError: not in vals"

(***************************************************************************)
(* Decoding of the raw transfer (ChannelBuffer.get, the parsing part)      *)
(***************************************************************************)
\* one element of dtype '<i2': two bytes, low byte first, two's complement
Word(lo, hi) ==
    LET u == lo + 256 * hi IN IF u >= 32768 THEN u - 65536 ELSE u

\* an int16 result: numpy keeps the width of the array and wraps silently
Int16(x) == ((x + 32768) % 65536) - 32768

\* np.fromstring(rawdata, dtype='<i2'), for an even number of bytes
FromString(rawdata) ==
    [i \in 1..(Len(rawdata) \div 2) |-> Word(rawdata[2 * i - 1], rawdata[2 * i])]

\* realdata[::2]
EvenSlice(realdata) ==
    [i \in 1..((Len(realdata) + 1) \div 2) |-> realdata[2 * i - 1]]

\* a slip in the slice offset: realdata[2::2]
OddSliceFromTwo(realdata) ==
    [i \in 1..((Len(realdata) - 1) \div 2) |-> realdata[2 * i + 1]]

\* realdata[1::2]
OddSlice(realdata) ==
    [i \in 1..(Len(realdata) \div 2) |-> realdata[2 * i]]

\* realdata[1::2]-124, element by element, in int16
BiasedExponent(e) == Int16(e - ExponentBias)

\* the length numpy broadcasts two 1-d operands to, -1 when it cannot
BroadcastLen(la, lb) ==
    IF la = lb THEN la
    ELSE IF la = 1 THEN lb
    ELSE IF lb = 1 THEN la
    ELSE -1

\* element i of a 1-d operand under broadcasting
BroadcastAt(a, i) == IF Len(a) = 1 THEN a[1] ELSE a[i]

\* realdata = np.fromstring(rawdata, dtype='<i2')
\* numbers = realdata[::2]*2.0**(realdata[1::2]-124)
Decode(rawdata) ==
    IF Len(rawdata) % 2 # 0
    THEN [err |-> ErrFromString, vals |-> <<>>]
    ELSE LET realdata == FromString(rawdata)
             m == EvenSlice(realdata)
             e == OddSlice(realdata)
             n == BroadcastLen(Len(m), Len(e))
         IN  IF n < 0
             THEN [err |-> ErrBroadcast, vals |-> <<>>]
             ELSE [err |-> NoError,
                   vals |-> [i \in 1..n |->
                               [mant |-> BroadcastAt(m, i),
                                exp2 |-> BiasedExponent(BroadcastAt(e, i))]]]

(***************************************************************************)
(* The wire format the decoder reads: each sample is a signed 16-bit       *)
(* mantissa followed by a signed 16-bit exponent, low byte first           *)
(***************************************************************************)
LoByte(x) == (x % 65536) % 256
HiByte(x) == (x % 65536) \div 256

\* byte k (1..4) of the pair p
PairByte(p, k) ==
    IF k = 1 THEN LoByte(p.m)
    ELSE IF k = 2 THEN HiByte(p.m)
    ELSE IF k = 3 THEN LoByte(p.e)
    ELSE HiByte(p.e)

Encode(pairs) ==
    [j \in 1..(4 * Len(pairs)) |-> PairByte(pairs[((j - 1) \div 4) + 1], ((j - 1) % 4) + 1)]

(***************************************************************************)
(* Setpoints (ChannelBuffer.prepare_buffer_readout, first part)            *)
(***************************************************************************)
\* the value buffer_SR() returns for the index the instrument answers SRAT ?
\* with: the key of val_mapping, 2^(idx-4) Hz or 'Trigger'
SRKey(idx) ==
    IF idx = TriggerIndex THEN [kind |-> "Trigger", num |-> 0, den |-> 1]
    ELSE IF idx >= OneHzIndex
         THEN [kind |-> "Hz", num |-> Pow2(idx - OneHzIndex), den |-> 1]
         ELSE [kind |-> "Hz", num |-> 1, den |-> Pow2(OneHzIndex - idx)]

\* a slip in the start of the range: np.arange(1, N+1)
ARangeFromOne(N) == [i \in 1..N |-> Rat(i, 1)]

\* np.arange(0, N)
ARange(N) == [i \in 1..N |-> Rat(i - 1, 1)]

\* np.linspace(0, stop, N): the end point is included (endpoint=True)
LinSpace(stop, N) ==
    IF N = 1 THEN <<Rat(0, 1)>>
    ELSE [i \in 1..N |-> Rat((i - 1) * stop.num, (N - 1) * stop.den)]

\* dt = 1/SR
Dt(SR) == [num |-> SR.den, den |-> SR.num]

\* N*dt
Scale(N, dt) == Rat(N * dt.num, dt.den)

\* the setpoint attributes prepare_buffer_readout assigns for N and SR
BuildSetpoints(N, SR) ==
    IF SR.kind = "Trigger"
    THEN [setpoint_units |-> "", setpoint_names |-> "trig_events",
          setpoint_labels |-> "Trigger event number",
          setpoints |-> ARange(N)]
    ELSE [setpoint_units |-> "s", setpoint_names |-> "Time",
          setpoint_labels |-> "Time",
          setpoints |-> LinSpace(Scale(N, Dt(SR)), N)]

(***************************************************************************)
(* Channel configuration tables and getters                                *)
(***************************************************************************)
\* a loop over both channels: for ch in range(1, 3)
RegisteredBoth == 1..ChannelLoopEnd

\* for ch in range(1, 2): the channels whose parameters are registered
RegisteredChannels == 1..(ChannelLoopEnd - 1)

\* val_mapping of _get_ch_ratio
RatioNames(channel) ==
    IF channel = 1 THEN <<"X", "R[V]", "R[dBm]", "Xn", "AuxIn1">>
    ELSE <<"Y", "P", "Yn[V]", "Yn[dBm]", "AuxIn2">>

\* val_mapping of _get_ch_display and _set_ch_display
DisplayNames(channel) ==
    IF channel = 1 THEN <<"X", "R", "X Noise", "Aux In 1", "Aux In 2">>
    ELSE <<"Y", "Phase", "Y Noise", "Aux In 3", "Aux In 4">>

\* the answers to DDEF ?: the fields between commas, "j" or "j,k"
DDEFResponses == {<<j>> : j \in 0..4} \cup {<<j, k>> : j \in 0..4, k \in 0..1}

\* _get_ch_ratio: int() of the whole answer, then the list entry
GetChRatio(channel, resp) ==
    IF Len(resp) # 1 THEN [err |-> ErrIntParse, val |-> ""]
    ELSE [err |-> NoError, val |-> RatioNames(channel)[resp[1] + 1]]

\* _get_ch_display: int() of the first field, then the dict entry
GetChDisplay(channel, resp) == DisplayNames(channel)[resp[1] + 1]

\* a slip that inverts the test: "is 'none'"
IsNone(ratio) == ratio = "none"

\* "is not 'none'": an object that is not equal to 'none' is not identical
\* to it either, and the getter returns no string equal to 'none'
IsNotNone(ratio) == ratio # "none"

(***************************************************************************)
(* Inputs of the driver runs                                               *)
(***************************************************************************)
\* the sample-rate indices the instrument is set to and answers with in the
\* driver runs: one timed rate (2 Hz) and 'Trigger'; the setpoint construction
\* is given every index of val_mapping in SpecSetpoints
SRInputs == {OneHzIndex + 1, TriggerIndex}

\* sample i of the transfer the instrument sends
FramePair(i) ==
    [m |-> IF i % 2 = 0 THEN 0 - i ELSE i, e |-> ExponentBias + i]

\* a transfer of MaxN+1 samples; the instrument may send any prefix of it
Frame == Encode([i \in 1..(MaxN + 1) |-> FramePair(i)])

RawInputs == {SubSeq(Frame, 1, n) : n \in 0..(4 * MaxN + 2)}

(***************************************************************************)
(* The state after construction                                            *)
(***************************************************************************)
\* ChannelBuffer.__init__: dummy shape and unit, no setpoints yet
NewChannelBuffer ==
    [shape |-> 1, unit |-> "V",
     setpoint_names |-> "Time", setpoint_labels |-> "Time",
     setpoint_units |-> "s",
     setpoints_set |-> FALSE, setpoints |-> <<>>]

\* what a call left behind: its name, channel, outcome, the point count the
\* instrument reported (-1: not asked), the bytes read (-1: none read), the
\* value returned and the commands written
Called(op, ch, err, npts, rawlen, ret, written) ==
    [op |-> op, ch |-> ch, err |-> err, npts |-> npts, rawlen |-> rawlen,
     ret |-> ret, written |-> written]

Command(cmd, args) == [cmd |-> cmd, args |-> args]

PureIdle == [pairs |-> <<>>, N |-> 0, idx |-> 0]
PureNone == [done |-> FALSE, err |-> NoError, vals |-> <<>>, unit |-> ""]

DriverInit ==
    /\ buffer_ready = [c \in Channels |-> FALSE]
    /\ stray_buffer_ready = "unset"
    /\ cb = [c \in Channels |-> NewChannelBuffer]
    /\ last = Called("init", 0, NoError, -1, -1, <<>>, <<>>)
    /\ sr_stale = [c \in Channels |-> FALSE]

Init ==
    /\ DriverInit
    /\ pure_in = PureIdle
    /\ pure_out = PureNone

(***************************************************************************)
(* ChannelBuffer.prepare_buffer_readout                                    *)
(***************************************************************************)
\* the attributes assigned before the unit is looked up
WithSetpoints(c, N, SR) ==
    LET sp == BuildSetpoints(N, SR)
    IN  [cb[c] EXCEPT !.setpoint_units = sp.setpoint_units,
                      !.setpoint_names = sp.setpoint_names,
                      !.setpoint_labels = sp.setpoint_labels,
                      !.setpoints_set = TRUE,
                      !.setpoints = sp.setpoints,
                      !.shape = N]

\* if self.channel == 1: _buffer1_ready = True else: _buffer2_ready = True
MarkReady(c) == [buffer_ready EXCEPT ![IF c = 1 THEN 1 ELSE 2] = TRUE]

\* the call ends with an exception after the setpoints were assigned
PrepareFails(c, N, SR, err) ==
    /\ cb' = [cb EXCEPT ![c] = WithSetpoints(c, N, SR)]
    /\ buffer_ready' = buffer_ready
    /\ last' = Called("prepare_buffer_readout", c, err, N, -1, <<>>, <<>>)

\* the call runs to its end with the unit chosen
PrepareDone(c, N, SR, unit) ==
    /\ cb' = [cb EXCEPT ![c] = [WithSetpoints(c, N, SR) EXCEPT !.unit = unit]]
    /\ buffer_ready' = MarkReady(c)
    /\ last' = Called("prepare_buffer_readout", c, NoError, N, -1, <<>>, <<>>)

Prepare(c) ==
    \E N \in 0..MaxN, idx \in SRInputs :
        LET SR == SRKey(idx)
        IN  /\ sr_stale' = [sr_stale EXCEPT ![c] = FALSE]
            /\ UNCHANGED <<stray_buffer_ready, pure_in, pure_out>>
            /\ IF c \notin RegisteredChannels
               THEN PrepareFails(c, N, SR, ErrKeyParam)
               ELSE \E resp \in DDEFResponses :
                      LET ratio == GetChRatio(c, resp)
                      IN  IF ratio.err # NoError
                          THEN PrepareFails(c, N, SR, ratio.err)
                          ELSE IF IsNotNone(ratio.val)
                          THEN PrepareDone(c, N, SR, "%")
                          ELSE \E resp2 \in DDEFResponses :
                                 PrepareDone(c, N, SR,
                                     IF GetChDisplay(c, resp2) = "Phase"
                                     THEN "deg" ELSE "V")

(***************************************************************************)
(* ChannelBuffer.get                                                       *)
(***************************************************************************)
\* a slip in the channel test: channel 1's flag whatever the channel
ReadyFlagOfFirst(c) == buffer_ready[1]

\* ready = _buffer1_ready if self.channel == 1 else _buffer2_ready
ReadyFlag(c) == buffer_ready[IF c = 1 THEN 1 ELSE 2]

\* a slip in the comparison: if N < 0
IsNegativeCount(N) == N < 0

\* if N == 0
IsEmptyCount(N) == N = 0

\* a slip that leaves the shape check out
ShapeNeverMismatches(c, N) == FALSE

\* if self.shape[0] != N
ShapeMismatch(c, N) == cb[c].shape # N

\* the TRCL transfer, the parsing and the shape check
Transfer(c, N, rawdata) ==
    LET d == Decode(rawdata)
        err == IF d.err # NoError THEN d.err
               ELSE IF ShapeMismatch(c, N) THEN ErrShape
               ELSE NoError
    IN  Called("get", c, err, N, Len(rawdata),
               IF err = NoError THEN d.vals ELSE <<>>,
               <<Command("TRCL ?", <<c, 0, N>>)>>)

\* a slip that makes a read use the readiness up: the flag is cleared once
\* the read goes ahead
GetConsumesReadiness(c) ==
    /\ UNCHANGED <<stray_buffer_ready, cb, sr_stale, pure_in, pure_out>>
    /\ IF ~ReadyFlag(c)
       THEN /\ last' = Called("get", c, ErrNotReady, -1, -1, <<>>, <<>>)
            /\ UNCHANGED buffer_ready
       ELSE /\ buffer_ready' = [buffer_ready EXCEPT ![c] = FALSE]
            /\ \E N \in 0..MaxN :
                 IF IsEmptyCount(N)
                 THEN last' = Called("get", c, ErrEmpty, N, -1, <<>>, <<>>)
                 ELSE \E rawdata \in RawInputs : last' = Transfer(c, N, rawdata)

Get(c) ==
    /\ UNCHANGED <<buffer_ready, stray_buffer_ready, cb, sr_stale, pure_in, pure_out>>
    /\ IF ~ReadyFlag(c)
       THEN last' = Called("get", c, ErrNotReady, -1, -1, <<>>, <<>>)
       ELSE \E N \in 0..MaxN :
              IF IsEmptyCount(N)
              THEN last' = Called("get", c, ErrEmpty, N, -1, <<>>, <<>>)
              ELSE \E rawdata \in RawInputs : last' = Transfer(c, N, rawdata)

(***************************************************************************)
(* The setters                                                             *)
(***************************************************************************)
\* a slip that leaves out self._buffer1_ready = False
ClearedOnlySecond == [buffer_ready EXCEPT ![2] = FALSE]

\* self._buffer1_ready = False; self._buffer2_ready = False
ClearedBySR == [c \in Channels |-> FALSE]

\* _set_buffer_SR, called with the index val_mapping gives the rate
SetBufferSR ==
    \E idx \in SRInputs :
        /\ buffer_ready' = ClearedBySR
        /\ sr_stale' = [c \in Channels |-> TRUE]
        /\ last' = Called("_set_buffer_SR", 0, NoError, -1, -1, <<>>,
                          <<Command("SRAT", <<idx>>)>>)
        /\ UNCHANGED <<stray_buffer_ready, cb, pure_in, pure_out>>

\* _set_ch_ratio: val_mapping[channel] is a list, so .keys() raises before
\* anything is asked, written or assigned
SetChRatio(channel) ==
    \E ratio \in 0..4 :
        /\ last' = Called("_set_ch_ratio", channel, ErrNoKeys, -1, -1, <<>>, <<>>)
        /\ UNCHANGED <<buffer_ready, stray_buffer_ready, cb, sr_stale, pure_in, pure_out>>

\* val_mapping[channel][disp] of _set_ch_display
DisplayCode(channel, disp) ==
    CHOOSE j \in 0..4 : DisplayNames(channel)[j + 1] = disp

DisplayInputs(channel) ==
    {DisplayNames(channel)[j] : j \in 1..5} \cup {"bogus"}

\* _set_ch_display: the last statement assigns the attribute _buffer_ready,
\* which is neither _buffer1_ready nor _buffer2_ready
SetChDisplay(channel) ==
    \E disp \in DisplayInputs(channel) :
        /\ UNCHANGED <<buffer_ready, cb, sr_stale, pure_in, pure_out>>
        /\ IF disp \notin {DisplayNames(channel)[j] : j \in 1..5}
           THEN /\ last' = Called("_set_ch_display", channel, ErrNotInVals, -1, -1, <<>>, <<>>)
                /\ UNCHANGED stray_buffer_ready
           ELSE \E resp \in DDEFResponses :
                  IF Len(resp) < 2
                  THEN /\ last' = Called("_set_ch_display", channel, ErrIndex, -1, -1, <<>>, <<>>)
                       /\ UNCHANGED stray_buffer_ready
                  ELSE /\ last' = Called("_set_ch_display", channel, NoError, -1, -1, <<>>,
                                         <<Command("DDEF", <<channel, DisplayCode(channel, disp), resp[2]>>)>>)
                       /\ stray_buffer_ready' = "False"

(***************************************************************************)
(* The sensitivity parameter: _VOLT_TO_N, _N_TO_VOLT and the two parsers   *)
(***************************************************************************)
ErrKeySens == "KeyError: sensitivity"

\* the dict display of _VOLT_TO_N, entry by entry as written
VoltToNLiteral ==
    << <<"1e-07", 0>>, <<"3e-07", 1>>,
       <<"1e-06", 2>>, <<"3e-06", 3>>,
       <<"1e-05", 4>>, <<"3e-05", 5>>,
       <<"1e-04", 6>>, <<"0.0003", 7>>,
       <<"0.001", 8>>, <<"0.003", 9>>,
       <<"0.01", 10>>, <<"0.03", 11>>,
       <<"0.01", 12>>, <<"0.3", 13>>,
       <<"1.0", 14>> >>

HasKey(items, k) == \E i \in 1..Len(items) : items[i][1] = k

Lookup(items, k) == items[CHOOSE i \in 1..Len(items) : items[i][1] = k][2]

\* d[k] = v: a key already present keeps its place and takes the new value
Put(items, k, v) ==
    IF HasKey(items, k)
    THEN [i \in 1..Len(items) |-> IF items[i][1] = k THEN <<k, v>> ELSE items[i]]
    ELSE Append(items, <<k, v>>)

\* the dict built from the first n entries, in order
RECURSIVE DictFrom(_, _)
DictFrom(entries, n) ==
    IF n = 0 THEN <<>>
    ELSE Put(DictFrom(entries, n - 1), entries[n][1], entries[n][2])

VOLT_TO_N == DictFrom(VoltToNLiteral, Len(VoltToNLiteral))

\* {v: k for k, v in _VOLT_TO_N.items()}
N_TO_VOLT ==
    DictFrom([i \in 1..Len(VOLT_TO_N) |-> <<VOLT_TO_N[i][2], VOLT_TO_N[i][1]>>],
             Len(VOLT_TO_N))

\* _get_sensitivity(s), n = int(s)
GetSensitivity(n) ==
    IF HasKey(N_TO_VOLT, n) THEN [err |-> NoError, val |-> Lookup(N_TO_VOLT, n)]
    ELSE [err |-> ErrKeySens, val |-> ""]

\* _set_sensitivity(s)
SetSensitivity(v) ==
    IF HasKey(VOLT_TO_N, v) THEN [err |-> NoError, val |-> Lookup(VOLT_TO_N, v)]
    ELSE [err |-> ErrKeySens, val |-> -1]

\* the indices the instrument answers SENS? with: those the table was written for
SensIndices == {VoltToNLiteral[i][2] : i \in 1..Len(VoltToNLiteral)}

\* the strings given to sensitivity(...): the keys as written, and '0.1'
\* (no validator is attached to the parameter)
SensInputs == {VoltToNLiteral[i][1] : i \in 1..Len(VoltToNLiteral)} \cup {"0.1"}

\* sensitivity(): SENS? is asked and the answer parsed; the record returned
\* holds the parser's argument and its value
SensitivityGet ==
    \E n \in SensIndices :
        LET r == GetSensitivity(n)
        IN  /\ last' = Called("sensitivity.get", 0, r.err, -1, -1,
                              <<[arg |-> n, val |-> r.val]>>,
                              <<Command("SENS?", <<>>)>>)
            /\ UNCHANGED <<buffer_ready, stray_buffer_ready, cb, sr_stale, pure_in, pure_out>>

\* sensitivity(v): the value is parsed, then SENS n is written
SensitivitySet ==
    \E v \in SensInputs :
        LET r == SetSensitivity(v)
        IN  /\ last' = Called("sensitivity.set", 0, r.err, -1, -1,
                              <<[arg |-> v, val |-> r.val]>>,
                              IF r.err = NoError
                              THEN <<Command("SENS", <<r.val>>)>> ELSE <<>>)
            /\ UNCHANGED <<buffer_ready, stray_buffer_ready, cb, sr_stale, pure_in, pure_out>>

Next ==
    \/ \E c \in Channels : Prepare(c)
    \/ \E c \in Channels : Get(c)
    \/ SetBufferSR
    \/ \E c \in Channels : SetChRatio(c)
    \/ \E c \in Channels : SetChDisplay(c)
    \/ SensitivityGet
    \/ SensitivitySet

Spec == Init /\ [][Next]_vars

(***************************************************************************)
(* The decoder on its own: a sequence of (mantissa, exponent) pairs is     *)
(* put on the wire and decoded                                             *)
(***************************************************************************)
Int16Samples == {-32768, -1, 0, 1, 124, 32767}

PairSeqs ==
    UNION {[1..n -> [m : Int16Samples, e : Int16Samples]] : n \in 0..MaxPairs}

InitDecode ==
    /\ DriverInit
    /\ pure_in \in {[pairs |-> p, N |-> 0, idx |-> 0] : p \in PairSeqs}
    /\ pure_out = PureNone

DecodeStep ==
    /\ ~pure_out.done
    /\ LET d == Decode(Encode(pure_in.pairs))
       IN  pure_out' = [done |-> TRUE, err |-> d.err, vals |-> d.vals, unit |-> ""]
    /\ UNCHANGED <<buffer_ready, stray_buffer_ready, cb, last, sr_stale, pure_in>>

SpecDecode == InitDecode /\ [][DecodeStep]_vars

(***************************************************************************)
(* The setpoint construction on its own, for every point count up to       *)
(* MaxCount and every sample-rate index of val_mapping                     *)
(***************************************************************************)
InitSetpoints ==
    /\ DriverInit
    /\ pure_in \in {[pairs |-> <<>>, N |-> n, idx |-> i] :
                        n \in 0..MaxCount, i \in 0..TriggerIndex}
    /\ pure_out = PureNone

SetpointsStep ==
    /\ ~pure_out.done
    /\ LET sp == BuildSetpoints(pure_in.N, SRKey(pure_in.idx))
       IN  pure_out' = [done |-> TRUE, err |-> NoError,
                        vals |-> sp.setpoints, unit |-> sp.setpoint_units]
    /\ UNCHANGED <<buffer_ready, stray_buffer_ready, cb, last, sr_stale, pure_in>>

SpecSetpoints == InitSetpoints /\ [][SetpointsStep]_vars

(***************************************************************************)
(* The unit selection of prepare_buffer_readout on its own, for every      *)
(* answer the instrument can give the ratio and the display getter of a    *)
(* registered channel                                                      *)
(***************************************************************************)
\* params[ratio].get(), the test against 'none', params[display].get()
UnitChoice(c, resp, resp2) ==
    LET ratio == GetChRatio(c, resp)
    IN  IF ratio.err # NoError THEN [err |-> ratio.err, unit |-> ""]
        ELSE IF IsNotNone(ratio.val) THEN [err |-> NoError, unit |-> "%"]
        ELSE [err |-> NoError,
              unit |-> IF GetChDisplay(c, resp2) = "Phase" THEN "deg" ELSE "V"]

InitUnit ==
    /\ DriverInit
    /\ pure_in \in {[ch |-> c, resp |-> r, resp2 |-> r2] :
                        c \in RegisteredChannels,
                        r \in DDEFResponses, r2 \in DDEFResponses}
    /\ pure_out = PureNone

UnitStep ==
    /\ ~pure_out.done
    /\ LET u == UnitChoice(pure_in.ch, pure_in.resp, pure_in.resp2)
       IN  pure_out' = [done |-> TRUE, err |-> u.err, vals |-> <<>>, unit |-> u.unit]
    /\ UNCHANGED <<buffer_ready, stray_buffer_ready, cb, last, sr_stale, pure_in>>

SpecUnit == InitUnit /\ [][UnitStep]_vars

(***************************************************************************)
(* Properties                                                              *)
(***************************************************************************)

\* C1: a read of a channel whose readiness flag is false (the state after
\* construction included) fails with the 'buffer not ready' error and
\* returns no samples.
C1_UnpreparedReadFails ==
    (last.op = "get" /\ ~buffer_ready[last.ch])
        => (last.err = ErrNotReady /\ last.ret = <<>>)

\* a read of channel 1 that failed as not ready although the channel had been
\* prepared before (its flag was cleared since)
C1_Witness ==
    /\ last.op = "get" /\ last.ch = 1
    /\ ~buffer_ready[1] /\ cb[1].setpoints_set
    /\ last.err = ErrNotReady

\* C2: setting the sample rate leaves both readiness flags false, and no read
\* of a channel succeeds after a sample-rate set unless
\* prepare_buffer_readout was called for that channel in between.
C2_SampleRateSetClearsReadiness ==
    /\ (last.op = "_set_buffer_SR" => \A c \in Channels : ~buffer_ready[c])
    /\ ((last.op = "get" /\ last.err = NoError) => ~sr_stale[last.ch])

\* a read of channel 1, prepared earlier, that failed because the sample rate
\* was set and the channel not prepared again
C2_Witness ==
    /\ last.op = "get" /\ last.ch = 1
    /\ sr_stale[1] /\ cb[1].setpoints_set
    /\ last.err = ErrNotReady

\* C3 (as claimed): a successful change of a channel's ratio or display
\* leaves that channel's readiness flag false.
C3_ConfigChangeClearsReadiness ==
    (last.op \in {"_set_ch_ratio", "_set_ch_display"} /\ last.err = NoError)
        => ~buffer_ready[last.ch]

\* C4: a read in which the instrument reports a point count of 0 fails with
\* the empty-buffer error and returns nothing.
C4_ZeroCountIsEmptyError ==
    (last.op = "get" /\ last.npts = 0)
        => (last.err = ErrEmpty /\ last.ret = <<>>)

\* a read of a prepared channel in which the instrument reported 0 points
C4_Witness ==
    /\ last.op = "get" /\ last.npts = 0
    /\ buffer_ready[last.ch]
    /\ last.err = ErrEmpty

\* C5 (as claimed): every successful read returns exactly as many samples as
\* the point count N the instrument reported.
C5_SuccessfulReadHasNSamples ==
    (last.op = "get" /\ last.err = NoError) => Len(last.ret) = last.npts

\* C6 (as claimed): a read whose raw response has a length that is not a
\* multiple of 4 fails and returns no sample sequence.
C6_PartialWordFails ==
    (last.op = "get" /\ last.rawlen >= 0 /\ last.rawlen % 4 # 0)
        => last.err # NoError

\* C7 (as claimed): with the readiness flag set, N > 0 and a raw response of
\* exactly 4*N bytes, the read succeeds and returns exactly N values.
C7_WellFormedReadSucceeds ==
    (/\ last.op = "get"
     /\ buffer_ready[last.ch]
     /\ last.npts > 0
     /\ last.rawlen = 4 * last.npts)
        => (last.err = NoError /\ Len(last.ret) = last.npts)

\* C7 (amended): with the readiness flag set, N > 0, N equal to the point
\* count captured by the channel's last prepare_buffer_readout (its shape) and
\* a raw response of exactly 4*N bytes, the read succeeds and returns exactly
\* N values.
C7_WellFormedReadOfPreparedShapeSucceeds ==
    (/\ last.op = "get"
     /\ buffer_ready[last.ch]
     /\ last.npts > 0
     /\ cb[last.ch].shape = last.npts
     /\ last.rawlen = 4 * last.npts)
        => (last.err = NoError /\ Len(last.ret) = last.npts)

\* a successful read of N > 0 samples from 4*N bytes
C7_Witness ==
    /\ last.op = "get" /\ buffer_ready[last.ch]
    /\ last.npts > 0 /\ cb[last.ch].shape = last.npts
    /\ last.rawlen = 4 * last.npts
    /\ last.err = NoError /\ Len(last.ret) = last.npts

\* C8 (as claimed): decoding the encoding of any sequence of signed 16-bit
\* (mantissa, exponent) pairs returns, in order, mantissa * 2^(exponent - 124)
\* for each pair.
C8_DecodeRecoversPairs ==
    pure_out.done =>
        /\ pure_out.err = NoError
        /\ Len(pure_out.vals) = Len(pure_in.pairs)
        /\ \A i \in 1..Len(pure_in.pairs) :
              /\ pure_out.vals[i].mant = pure_in.pairs[i].m
              /\ pure_out.vals[i].exp2 = pure_in.pairs[i].e - ExponentBias

\* C9 (as claimed): for a numeric rate r the setpoints for N points are
\* i/r for i = 0..N-1, in seconds.
C9_TimeAxisIsIOverR ==
    (pure_out.done /\ pure_in.idx # TriggerIndex) =>
        /\ pure_out.unit = "s"
        /\ Len(pure_out.vals) = pure_in.N
        /\ \A i \in 1..pure_in.N :
              pure_out.vals[i] =
                  Rat((i - 1) * SRKey(pure_in.idx).den, SRKey(pure_in.idx).num)

\* C10: in 'Trigger' mode the setpoints for N points are the integers
\* 0, 1, ..., N-1 and the setpoint unit is empty.
C10_TriggerAxisIsIndex ==
    (pure_out.done /\ pure_in.idx = TriggerIndex) =>
        /\ pure_out.unit = ""
        /\ Len(pure_out.vals) = pure_in.N
        /\ \A i \in 1..pure_in.N : pure_out.vals[i] = [num |-> i - 1, den |-> 1]

\* the setpoints built for 5 points in 'Trigger' mode: 0, 1, 2, 3, 4
C10_Witness ==
    /\ pure_out.done /\ pure_in.idx = TriggerIndex /\ pure_in.N = 5
    /\ pure_out.vals = <<[num |-> 0, den |-> 1], [num |-> 1, den |-> 1],
                         [num |-> 2, den |-> 1], [num |-> 3, den |-> 1],
                         [num |-> 4, den |-> 1]>>

\* C11: the unit chosen for a channel's values is percent if the ratio the
\* getter reports is anything other than 'none', otherwise degrees if the
\* display the getter reports is 'Phase', otherwise volts.
C11_UnitFollowsRatioAndDisplay ==
    (pure_out.done /\ pure_out.err = NoError) =>
        LET ratio == RatioNames(pure_in.ch)[pure_in.resp[1] + 1]
            disp == DisplayNames(pure_in.ch)[pure_in.resp2[1] + 1]
        IN  pure_out.unit =
                IF ratio # "none" THEN "%"
                ELSE IF disp = "Phase" THEN "deg"
                ELSE "V"

\* the unit chosen for channel 1 when the ratio getter reports 'R[V]'
C11_Witness ==
    /\ pure_out.done /\ pure_out.err = NoError
    /\ pure_in.ch = 1 /\ pure_in.resp = <<1>>
    /\ pure_out.unit = "%"

\* C12 (as claimed): after every successful read of a channel, the length of
\* that channel's setpoints equals the number of samples the read returned,
\* both being the point count N.
C12_SetpointsMatchSamples ==
    (last.op = "get" /\ last.err = NoError) =>
        /\ Len(cb[last.ch].setpoints) = last.npts
        /\ Len(last.ret) = Len(cb[last.ch].setpoints)

\* C13: a read in which the reported point count differs from the channel's
\* prepared shape fails, and the shape error is only raised after the TRCL
\* command was written and the raw response read.
C13_ShapeMismatchFailsAfterTransfer ==
    /\ (last.op = "get" /\ last.npts >= 0 /\ last.npts # cb[last.ch].shape)
           => last.err # NoError
    /\ (last.op = "get" /\ last.err = ErrShape)
           => /\ last.npts # cb[last.ch].shape
              /\ last.written = <<Command("TRCL ?", <<last.ch, 0, last.npts>>)>>
              /\ last.rawlen >= 0

\* a read that consumed a well-formed response and then failed the shape check
C13_Witness ==
    /\ last.op = "get" /\ last.err = ErrShape
    /\ last.npts > 0 /\ last.rawlen = 4 * last.npts
    /\ last.written # <<>>

\* C15: channel 2's readiness flag is false in every reachable state; a
\* prepare of channel 2 ends at the lookup of its ratio parameter.
C15_SecondChannelNeverReady ==
    /\ ~buffer_ready[2]
    /\ (last.op = "prepare_buffer_readout" /\ last.ch = 2)
           => last.err = ErrKeyParam

\* a prepare of channel 2 that failed at the parameter lookup while channel 1
\* is ready
C15_Witness ==
    /\ last.op = "prepare_buffer_readout" /\ last.ch = 2
    /\ last.err = ErrKeyParam
    /\ cb[2].setpoints_set
    /\ buffer_ready[1] /\ ~buffer_ready[2]

\* C14: a read changes neither channel's readiness flag nor any channel's
\* shape, setpoints or unit, whether it succeeds or fails, and a read that
\* fails as not prepared or empty writes no command to the instrument.
C14_ReadChangesNothing ==
    /\ [][last'.op = "get" => (buffer_ready' = buffer_ready /\ cb' = cb)]_vars
    /\ []((last.op = "get" /\ last.err \in {ErrNotReady, ErrEmpty})
             => last.written = <<>>)

\* a successful read after which the channel is still ready and prepared
C14_Witness ==
    /\ last.op = "get" /\ last.err = NoError
    /\ last.written # <<>>
    /\ buffer_ready[last.ch] /\ cb[last.ch].setpoints_set

\* C16 (as claimed): the sensitivity tables are mutually inverse: every index
\* 0..14 is translated to a voltage string that translates back to the index,
\* and every key of _VOLT_TO_N is translated to an index that translates back
\* to the key.
C16_SensitivityTablesInverse ==
    /\ last.op = "sensitivity.get"
           => /\ last.err = NoError
              /\ SetSensitivity(last.ret[1].val) =
                     [err |-> NoError, val |-> last.ret[1].arg]
    /\ (last.op = "sensitivity.set" /\ HasKey(VOLT_TO_N, last.ret[1].arg))
           => /\ last.err = NoError
              /\ GetSensitivity(last.ret[1].val) =
                     [err |-> NoError, val |-> last.ret[1].arg]

====
